---- MODULE Spec2Model ----
(***************************************************************************)
(* The hidden `start` command group of bentoml_cli/_internal/start.py:     *)
(* start_http_server, start_grpc_server and start_runner_server.           *)
(*                                                                         *)
(* A process holds the module search path sys.path; a command invocation   *)
(* runs the handler's statements in order (pc is the handler's position),  *)
(* and either reaches one external launch strategy or raises.              *)
(*                                                                         *)
(* Python values                                                           *)
(*   None / a value v of an optional parameter : <<>> / <<v>>              *)
(*   a dependency token, a dict key or value   : a sequence of characters  *)
(*   a dict                                    : [kind |-> "dict", items |-> function] *)
(*   urlparse(bind)                            : the record of its parts   *)
(***************************************************************************)
EXTENDS Integers, Sequences, FiniteSets, TLC

VARIABLES
    sys_path,         \* sys.path of the process
    pc,               \* position in the running handler
    cmd,              \* the command being run: "http", "grpc", "runner" or "none"
    args,             \* the handler's parameters as click passed them
    load_result,      \* what the external loader does for this bento
    working_dir,      \* local working_dir
    runner_map_dict,  \* local runner_map_dict (runner_map in start_grpc_server)
    host,             \* local host
    port,             \* local port
    svc,              \* local svc
    log,              \* what the handler has done so far, in order
    launched,         \* calls made to the external launch strategies, in order
    invocations,      \* commands invoked in this process so far
    path0,            \* sys.path before the first working-directory resolution
    resolved          \* the working directories resolved so far, in order

vars == <<sys_path, pc, cmd, args, load_result, working_dir, runner_map_dict,
          host, port, svc, log, launched, invocations, path0, resolved>>

(***************************************************************************)
(* Bounds                                                                  *)
(***************************************************************************)
MaxDepends == 2       \* longest depends / remote_runner sequence
MaxResolutions == 3   \* commands invoked in one process under SpecPath

(***************************************************************************)
(* Python values                                                           *)
(***************************************************************************)
None == <<>>
Some(v) == <<v>>

\* bool(x) of an optional int and of an optional str
TruthyInt(o) == o # None /\ o[1] # 0
TruthyStr(o) == o # None /\ o[1] # ""

\* `a or b` of optional ints and of optional strs
OrInt(a, b) == IF TruthyInt(a) THEN a ELSE b
OrStr(a, b) == IF TruthyStr(a) THEN a ELSE b

Unbound == [kind |-> "unbound", items |-> <<>>]
PyDict(f) == [kind |-> "dict", items |-> f]
PyOther(k) == [kind |-> k, items |-> <<>>]
EmptyDict == PyDict(<<>>)

Raise == [ok |-> FALSE, value |-> Unbound]
Return(v) == [ok |-> TRUE, value |-> v]

(***************************************************************************)
(* Working directory, lines 156-162 (repeated at 360-366 and 454-460)      *)
(***************************************************************************)
\* the directories that exist on disk
Dirs == {"dA", "home"}

\* os.path.expanduser
ExpandUser(p) == IF p = "~" THEN "home" ELSE p

\* os.path.isdir
IsDir(p) == p \in Dirs

ResolveWorkingDir(bento, wd) ==
    IF wd = None
    THEN IF IsDir(ExpandUser(bento)) THEN ExpandUser(bento) ELSE "."
    ELSE wd[1]

InsertPath(path, wd) ==
    IF path[1] # wd THEN <<wd>> \o path ELSE path

(***************************************************************************)
(* Dependency map, lines 163-168 and 370                                   *)
(***************************************************************************)
MaxSplit == 2

RECURSIVE FindSep(_, _, _)
\* least index >= i of sep in s, 0 when there is none
FindSep(s, sep, i) ==
    IF i > Len(s) THEN 0
    ELSE IF s[i] = sep THEN i
    ELSE FindSep(s, sep, i + 1)

RECURSIVE Split(_, _, _)
\* str.split(sep, maxsplit)
Split(s, sep, maxsplit) ==
    LET i == FindSep(s, sep, 1)
    IN  IF maxsplit = 0 \/ i = 0
        THEN <<s>>
        ELSE <<SubSeq(s, 1, i - 1)>> \o Split(SubSeq(s, i + 1, Len(s)), sep, maxsplit - 1)

RECURSIVE DictUpdate(_, _, _)
\* dict(pairs): the pairs entered in order from index i, a later key replacing an earlier
DictUpdate(f, pairs, i) ==
    IF i > Len(pairs) THEN f
    ELSE DictUpdate((pairs[i][1] :> pairs[i][2]) @@ f, pairs, i + 1)

\* dict([s.split("=", maxsplit=2) for s in tokens]); raises ValueError when an
\* element is not of length 2
DictOfTokens(tokens) ==
    LET parts == [i \in 1..Len(tokens) |-> Split(tokens[i], "=", MaxSplit)]
    IN  IF \E i \in 1..Len(tokens) : Len(parts[i]) # 2
        THEN Raise
        ELSE Return(PyDict(DictUpdate(<<>>, parts, 1)))

\* json.loads on the texts of RunnerMaps
JsonLoads(text) ==
    CASE text = "{\"a\":\"9\"}" -> Return(PyDict(<<"a">> :> <<"9">>))
      [] text = "{}" -> Return(EmptyDict)
      [] text = "[]" -> Return(PyOther("list"))
      [] text = "null" -> Return(PyOther("none"))
      [] OTHER -> Raise

\* the two sources tried in the other order
DependencyMapResolver_JsonFirst(depends, runner_map) ==
    IF TruthyStr(runner_map)
    THEN JsonLoads(runner_map[1])
    ELSE IF depends # <<>>
    THEN DictOfTokens(depends)
    ELSE Return(EmptyDict)

DependencyMapResolver(depends, runner_map) ==
    IF depends # <<>>
    THEN DictOfTokens(depends)
    ELSE IF TruthyStr(runner_map)
    THEN JsonLoads(runner_map[1])
    ELSE Return(EmptyDict)

(***************************************************************************)
(* Bind address, lines 170-174 (repeated at 208-212, 462-466, 470-474)     *)
(***************************************************************************)
\* str.lower on the host names of BindStrings
Lower(h) == IF h = "H1" THEN "h1" ELSE h

\* urlparse(bind).hostname: lower case, None when the netloc names no host
UrlHostname(bind) == IF bind.host = "" THEN None ELSE Some(Lower(bind.host))

\* urlparse(bind).port: [ok, value]; None when the netloc carries no port,
\* ValueError outside 0..65535
UrlPort(bind) ==
    IF bind.port = None THEN [ok |-> TRUE, value |-> None]
    ELSE IF bind.port[1] < 0 \/ bind.port[1] > 65535 THEN [ok |-> FALSE, value |-> None]
    ELSE [ok |-> TRUE, value |-> bind.port]

\* the block without its scheme assertion
ApplyBind_NoSchemeCheck(bind, h, p) ==
    IF bind = None
    THEN [ok |-> TRUE, host |-> h, port |-> p]
    ELSE IF ~UrlPort(bind[1]).ok
    THEN [ok |-> FALSE, host |-> OrStr(UrlHostname(bind[1]), h), port |-> p]
    ELSE [ok |-> TRUE,
          host |-> OrStr(UrlHostname(bind[1]), h),
          port |-> OrInt(UrlPort(bind[1]).value, p)]

\* the `if bind is not None:` block: [ok, host, port]; a failed assert raises
\* (the interpreter runs without -O), and parsed.port raises after host is assigned
ApplyBind(bind, h, p) ==
    IF bind = None
    THEN [ok |-> TRUE, host |-> h, port |-> p]
    ELSE IF bind[1].scheme # "tcp"
    THEN [ok |-> FALSE, host |-> h, port |-> p]
    ELSE IF ~UrlPort(bind[1]).ok
    THEN [ok |-> FALSE, host |-> OrStr(UrlHostname(bind[1]), h), port |-> p]
    ELSE [ok |-> TRUE,
          host |-> OrStr(UrlHostname(bind[1]), h),
          port |-> OrInt(UrlPort(bind[1]).value, p)]

(***************************************************************************)
(* What the commands can be given                                          *)
(***************************************************************************)
Tokens ==
    { <<"a", "=", "1">>, <<"a", "=", "2">>, <<"b", "=", "1">>,
      <<"a", "1">>, <<"a", "=", "1", "=", "2">> }

\* depends / remote_runner: click's multiple=True, in command-line order
DependsSet == UNION {[1..n -> Tokens] : n \in 0..MaxDepends}

RunnerMaps ==
    {None, Some(""), Some("{bad"), Some("{\"a\":\"9\"}"), Some("[]"), Some("null")}

\* bind strings <scheme>://<host>[:<port>], by their parts
BindStrings ==
    {[scheme |-> "tcp", host |-> h, port |-> p] :
        h \in {"", "h1", "H1"}, p \in {None, Some(0), Some(80)}}
    \cup {[scheme |-> "http", host |-> "h1", port |-> Some(80)],
          [scheme |-> "tcp", host |-> "h1", port |-> Some(65536)]}

Binds == {None} \cup {Some(b) : b \in BindStrings}

Bentos == {"dA", "~", "tag"}
WorkingDirs == {None, Some("dA"), Some("dB")}

\* the loader raises, or returns a bentoml.legacy.Service, or a current-style service
LoadFails == [ok |-> FALSE, legacy |-> FALSE, name |-> ""]
LegacySvc(n) == [ok |-> TRUE, legacy |-> TRUE, name |-> n]
CurrentSvc == [ok |-> TRUE, legacy |-> FALSE, name |-> "svc"]
LoadOutcomes == {LoadFails, LegacySvc("svc"), LegacySvc("other"), CurrentSvc}

ServiceNames == {"", "svc", "other"}

\* the tuning and TLS options of start_http_server, lines 135-147
OptFields ==
    {"backlog", "api_workers", "timeout", "ssl_certfile", "ssl_keyfile",
     "ssl_keyfile_password", "ssl_version", "ssl_cert_reqs", "ssl_ca_certs",
     "ssl_ciphers", "timeout_keep_alive", "timeout_graceful_shutdown"}

OptsGiven ==
    [backlog |-> Some(11), api_workers |-> Some(2), timeout |-> Some(30),
     ssl_certfile |-> Some("cert"), ssl_keyfile |-> Some("key"),
     ssl_keyfile_password |-> Some("pw"), ssl_version |-> Some(3),
     ssl_cert_reqs |-> Some(1), ssl_ca_certs |-> Some("ca"),
     ssl_ciphers |-> Some("ciphers"), timeout_keep_alive |-> Some(5),
     timeout_graceful_shutdown |-> Some(9)]

OptsUnset == [f \in OptFields |-> None]

HttpOptions ==
    {OptsUnset, OptsGiven, [OptsUnset EXCEPT !.api_workers = Some(0)]}
    \cup {[g \in OptFields |-> IF g = f THEN OptsGiven[g] ELSE None] : f \in OptFields}

\* start_http_server with the service name, dependencies, bind and options left out
HttpDefaults ==
    [bento |-> "dA", service_name |-> "", depends |-> <<>>, runner_map |-> None,
     bind |-> None, port |-> None, host |-> None, working_dir |-> None,
     reload |-> FALSE] @@ OptsUnset

Http(a, l) == [cmd |-> "http", args |-> a @@ HttpDefaults, load |-> l]

HttpWdSlice ==
    {Http([bento |-> b, working_dir |-> w, service_name |-> s], l) :
        b \in Bentos, w \in WorkingDirs, s \in {"", "other"},
        l \in {LegacySvc("svc"), CurrentSvc}}

HttpDepsSlice ==
    {Http([depends |-> d, runner_map |-> r, service_name |-> s], l) :
        d \in DependsSet, r \in RunnerMaps, s \in {"", "other"}, l \in LoadOutcomes}

HttpBindSlice ==
    {Http([bind |-> b, host |-> h, port |-> p, service_name |-> s], l) :
        b \in Binds, h \in {None, Some("0.0.0.0")}, p \in {None, Some(3000)},
        s \in {"", "other"}, l \in {LoadFails, LegacySvc("svc"), CurrentSvc}}

HttpDispatchSlice ==
    {Http([service_name |-> s, reload |-> r, depends |-> d] @@ o, l) :
        s \in ServiceNames, r \in BOOLEAN, d \in {<<>>, << <<"a", "=", "1">> >>},
        o \in HttpOptions, l \in LoadOutcomes}

HttpInvocations == HttpWdSlice \cup HttpDepsSlice \cup HttpBindSlice \cup HttpDispatchSlice

\* start_grpc_server and start_runner_server; their defaults come from the
\* configuration container (lines 261-337, 408-423)
GrpcDefaults ==
    [bento |-> "dA", remote_runner |-> <<>>, port |-> Some(3000),
     host |-> Some("0.0.0.0"), backlog |-> Some(2048), api_workers |-> None,
     working_dir |-> None, ssl_certfile |-> None, ssl_keyfile |-> None,
     enable_reflection |-> FALSE, ssl_ca_certs |-> None, enable_channelz |-> FALSE,
     max_concurrent_streams |-> None, protocol_version |-> "v1"]

Grpc(a) == [cmd |-> "grpc", args |-> a @@ GrpcDefaults, load |-> LoadFails]

GrpcWdSlice ==
    {Grpc([bento |-> b, working_dir |-> w]) : b \in Bentos, w \in WorkingDirs}

GrpcRunnerSlice ==
    {Grpc([remote_runner |-> d, protocol_version |-> v, api_workers |-> w]) :
        d \in DependsSet, v \in {"v1", "v1alpha1"}, w \in {None, Some(2)}}

GrpcInvocations == GrpcWdSlice \cup GrpcRunnerSlice

RunnerDefaults ==
    [bento |-> "dA", runner_name |-> "r1", bind |-> None, port |-> Some(3000),
     host |-> Some("0.0.0.0"), backlog |-> Some(2048), working_dir |-> None,
     timeout |-> None]

Runner(a) == [cmd |-> "runner", args |-> a @@ RunnerDefaults, load |-> LoadFails]

RunnerWdSlice ==
    {Runner([bento |-> b, working_dir |-> w]) : b \in Bentos, w \in WorkingDirs}

RunnerBindSlice ==
    {Runner([bind |-> b, port |-> p, timeout |-> t]) :
        b \in Binds, p \in {Some(3000), Some(0)}, t \in {None, Some(30)}}

RunnerInvocations == RunnerWdSlice \cup RunnerBindSlice

Invocations == HttpInvocations \cup GrpcInvocations \cup RunnerInvocations

\* the invocations that differ in the working directory they resolve
PathInvocations == HttpWdSlice \cup GrpcWdSlice \cup RunnerWdSlice

InitPaths == {<<"">>, <<"dA", "lib">>}

(***************************************************************************)
(* The process                                                             *)
(***************************************************************************)
NoSvc == [ok |-> FALSE, legacy |-> FALSE, name |-> ""]

Init ==
    /\ sys_path \in InitPaths
    /\ path0 = sys_path
    /\ resolved = <<>>
    /\ invocations = 0
    /\ pc = "idle"
    /\ cmd = "none"
    /\ args = <<>>
    /\ load_result = LoadFails
    /\ working_dir = None
    /\ runner_map_dict = Unbound
    /\ host = None
    /\ port = None
    /\ svc = NoSvc
    /\ log = <<>>
    /\ launched = <<>>

\* click calls the handler of the command with its parameters
Invoke(space, limit) ==
    /\ pc \in {"idle", "done", "failed"}
    /\ invocations < limit
    /\ \E inv \in space :
        /\ cmd' = inv.cmd
        /\ args' = inv.args
        /\ load_result' = inv.load
        /\ working_dir' = inv.args.working_dir
        /\ host' = inv.args.host
        /\ port' = inv.args.port
    /\ runner_map_dict' = Unbound
    /\ svc' = NoSvc
    /\ log' = <<>>
    /\ launched' = <<>>
    /\ invocations' = invocations + 1
    /\ pc' = "wd"
    /\ UNCHANGED <<sys_path, path0, resolved>>

\* lines 156-162, 360-366, 454-460
EnterWorkingDir(next) ==
    /\ pc = "wd"
    /\ LET wd == ResolveWorkingDir(args.bento, working_dir)
       IN  /\ working_dir' = Some(wd)
           /\ sys_path' = InsertPath(sys_path, wd)
           /\ resolved' = Append(resolved, wd)
    /\ log' = Append(log, "working_dir")
    /\ pc' = next
    /\ UNCHANGED <<cmd, args, load_result, runner_map_dict, host, port, svc,
                   launched, invocations, path0>>

\* an `if bind is not None:` block at position here
EnterBind(here, next) ==
    /\ pc = here
    /\ LET r == ApplyBind(args.bind, host, port)
       IN  /\ host' = r.host
           /\ port' = r.port
           /\ pc' = IF r.ok THEN next ELSE "failed"
           /\ log' = IF r.ok THEN Append(log, "bind") ELSE log
    /\ UNCHANGED <<sys_path, cmd, args, load_result, working_dir, runner_map_dict,
                   svc, launched, invocations, path0, resolved>>

\* a call of an external launch strategy, which serves until the server exits
Launch(here, strategy, kw, printed) ==
    /\ pc = here
    /\ launched' = Append(launched, [strategy |-> strategy, bento |-> args.bento, kw |-> kw])
    /\ log' = log \o [i \in 1..printed |-> "print"] \o <<"launch">>
    /\ pc' = "done"
    /\ UNCHANGED <<sys_path, cmd, args, load_result, working_dir, runner_map_dict,
                   host, port, svc, invocations, path0, resolved>>

(***************************************************************************)
(* start_http_server, lines 127-247                                        *)
(***************************************************************************)
HttpResolveWorkingDir == cmd = "http" /\ EnterWorkingDir("depmap")

HttpResolveDependencyMap ==
    /\ cmd = "http"
    /\ pc = "depmap"
    /\ LET r == DependencyMapResolver(args.depends, args.runner_map)
       IN  /\ runner_map_dict' = r.value
           /\ pc' = IF r.ok THEN "bind" ELSE "failed"
           /\ log' = IF r.ok THEN Append(log, "dependency_map") ELSE log
    /\ UNCHANGED <<sys_path, cmd, args, load_result, working_dir, host, port, svc,
                   launched, invocations, path0, resolved>>

HttpResolveBind == cmd = "http" /\ EnterBind("bind", "load")

HttpLoad ==
    /\ cmd = "http"
    /\ pc = "load"
    /\ svc' = IF load_result.ok THEN load_result ELSE svc
    /\ pc' = IF load_result.ok THEN "dispatch" ELSE "failed"
    /\ log' = IF load_result.ok THEN Append(log, "load") ELSE log
    /\ UNCHANGED <<sys_path, cmd, args, load_result, working_dir, runner_map_dict,
                   host, port, launched, invocations, path0, resolved>>

\* the branch without the comparison to the service's own name
SelectStrategy_NameIgnored(s, service_name) ==
    IF s.legacy
    THEN IF service_name = ""
         THEN "start_http_server"
         ELSE "start_runner_server"
    ELSE "serve_http"

\* the branch with the name compared before the kind of service
SelectStrategy_NameFirst(s, service_name) ==
    IF service_name = "" \/ service_name = s.name
    THEN IF s.legacy THEN "start_http_server" ELSE "serve_http"
    ELSE "start_runner_server"

\* the branch taken at lines 177, 181, 205 and 223
SelectStrategy(s, service_name) ==
    IF s.legacy
    THEN IF service_name = "" \/ service_name = s.name
         THEN "start_http_server"
         ELSE "start_runner_server"
    ELSE "serve_http"

HttpDispatch ==
    /\ cmd = "http"
    /\ pc = "dispatch"
    /\ log' = IF svc.legacy /\ args.reload THEN Append(log, "warning") ELSE log
    /\ pc' = CASE SelectStrategy(svc, args.service_name) = "start_http_server" -> "legacy_http"
               [] SelectStrategy(svc, args.service_name) = "start_runner_server" -> "runner_bind"
               [] OTHER -> "inject"
    /\ UNCHANGED <<sys_path, cmd, args, load_result, working_dir, runner_map_dict,
                   host, port, svc, launched, invocations, path0, resolved>>

\* the keyword arguments of lines 188-203
LegacyHttpKwargs ==
    [runner_map |-> runner_map_dict,
     working_dir |-> working_dir[1],
     port |-> port,
     host |-> host,
     backlog |-> args.backlog,
     api_workers |-> OrInt(args.api_workers, Some(1)),
     timeout |-> args.timeout,
     ssl_keyfile |-> args.ssl_keyfile,
     ssl_certfile |-> args.ssl_certfile,
     ssl_keyfile_password |-> args.ssl_keyfile_password,
     ssl_version |-> args.ssl_version,
     ssl_cert_reqs |-> args.ssl_cert_reqs,
     ssl_ca_certs |-> args.ssl_ca_certs,
     ssl_ciphers |-> args.ssl_ciphers,
     timeout_keep_alive |-> args.timeout_keep_alive,
     timeout_graceful_shutdown |-> args.timeout_graceful_shutdown]

HttpLaunchLegacy ==
    /\ cmd = "http"
    /\ Launch("legacy_http", "start_http_server", LegacyHttpKwargs, Len(args.depends))

HttpRunnerReparseBind == cmd = "http" /\ EnterBind("runner_bind", "runner_launch")

\* the call with the port of the command line in place of the resolved one
HttpRunnerKwargs_DiscretePort ==
    [runner_name |-> args.service_name,
     working_dir |-> working_dir[1],
     timeout |-> args.timeout,
     port |-> args.port,
     host |-> host,
     backlog |-> args.backlog]

\* the keyword arguments of lines 216-221
HttpRunnerKwargs ==
    [runner_name |-> args.service_name,
     working_dir |-> working_dir[1],
     timeout |-> args.timeout,
     port |-> port,
     host |-> host,
     backlog |-> args.backlog]

HttpLaunchRunner ==
    /\ cmd = "http"
    /\ Launch("runner_launch", "start_runner_server", HttpRunnerKwargs, 0)

HttpInjectConfig ==
    /\ cmd = "http"
    /\ pc = "inject"
    /\ log' = Append(log, "inject_config")
    /\ pc' = "serve"
    /\ UNCHANGED <<sys_path, cmd, args, load_result, working_dir, runner_map_dict,
                   host, port, svc, launched, invocations, path0, resolved>>

\* the keyword arguments of lines 230-246
ServeHttpKwargs ==
    [working_dir |-> working_dir[1],
     port |-> port,
     host |-> host,
     backlog |-> args.backlog,
     timeout |-> args.timeout,
     ssl_keyfile |-> args.ssl_keyfile,
     ssl_certfile |-> args.ssl_certfile,
     ssl_keyfile_password |-> args.ssl_keyfile_password,
     ssl_version |-> args.ssl_version,
     ssl_cert_reqs |-> args.ssl_cert_reqs,
     ssl_ca_certs |-> args.ssl_ca_certs,
     ssl_ciphers |-> args.ssl_ciphers,
     timeout_keep_alive |-> args.timeout_keep_alive,
     timeout_graceful_shutdown |-> args.timeout_graceful_shutdown,
     dependency_map |-> runner_map_dict,
     service_name |-> args.service_name,
     reload |-> args.reload]

HttpServe ==
    /\ cmd = "http"
    /\ Launch("serve", "serve_http", ServeHttpKwargs, 0)

(***************************************************************************)
(* start_grpc_server, lines 341-387                                        *)
(***************************************************************************)
GrpcResolveWorkingDir == cmd = "grpc" /\ EnterWorkingDir("runner_map")

GrpcBuildRunnerMap ==
    /\ cmd = "grpc"
    /\ pc = "runner_map"
    /\ LET r == DictOfTokens(args.remote_runner)
       IN  /\ runner_map_dict' = r.value
           /\ pc' = IF r.ok THEN "grpc_launch" ELSE "failed"
           /\ log' = IF r.ok THEN log \o <<"dependency_map", "print">> ELSE log
    /\ UNCHANGED <<sys_path, cmd, args, load_result, working_dir, host, port, svc,
                   launched, invocations, path0, resolved>>

\* the keyword arguments of lines 374-386
GrpcKwargs ==
    [runner_map |-> runner_map_dict,
     working_dir |-> working_dir[1],
     port |-> port,
     host |-> host,
     backlog |-> args.backlog,
     api_workers |-> args.api_workers,
     reflection |-> args.enable_reflection,
     ssl_keyfile |-> args.ssl_keyfile,
     ssl_certfile |-> args.ssl_certfile,
     ssl_ca_certs |-> args.ssl_ca_certs,
     channelz |-> args.enable_channelz,
     max_concurrent_streams |-> args.max_concurrent_streams,
     protocol_version |-> args.protocol_version]

GrpcLaunch ==
    /\ cmd = "grpc"
    /\ Launch("grpc_launch", "start_grpc_server", GrpcKwargs, 0)

(***************************************************************************)
(* start_runner_server, lines 441-484                                      *)
(***************************************************************************)
RunnerResolveWorkingDir == cmd = "runner" /\ EnterWorkingDir("bind")

RunnerResolveBind == cmd = "runner" /\ EnterBind("bind", "runner_bind")

RunnerReparseBind == cmd = "runner" /\ EnterBind("runner_bind", "runner_launch")

\* the keyword arguments of lines 478-483
RunnerKwargs ==
    [runner_name |-> args.runner_name,
     working_dir |-> working_dir[1],
     timeout |-> args.timeout,
     port |-> port,
     host |-> host,
     backlog |-> args.backlog]

RunnerLaunch ==
    /\ cmd = "runner"
    /\ Launch("runner_launch", "start_runner_server", RunnerKwargs, 0)

(***************************************************************************)
(* Specifications                                                          *)
(***************************************************************************)
Step ==
    \/ HttpResolveWorkingDir
    \/ HttpResolveDependencyMap
    \/ HttpResolveBind
    \/ HttpLoad
    \/ HttpDispatch
    \/ HttpLaunchLegacy
    \/ HttpRunnerReparseBind
    \/ HttpLaunchRunner
    \/ HttpInjectConfig
    \/ HttpServe
    \/ GrpcResolveWorkingDir
    \/ GrpcBuildRunnerMap
    \/ GrpcLaunch
    \/ RunnerResolveWorkingDir
    \/ RunnerResolveBind
    \/ RunnerReparseBind
    \/ RunnerLaunch

\* the command line program: one command per process (line 493)
InvokeCommand == Invoke(Invocations, 1)

Next == InvokeCommand \/ Step

Spec == Init /\ [][Next]_vars

\* the command group called repeatedly in one process
InvokeAgain == Invoke(PathInvocations, MaxResolutions)

NextPath == InvokeAgain \/ Step

SpecPath == Init /\ [][NextPath]_vars

(***************************************************************************)
(* Vocabulary of the properties                                            *)
(***************************************************************************)
Range(s) == {s[i] : i \in DOMAIN s}

Count(s, x) == Cardinality({i \in DOMAIN s : s[i] = x})

\* index of the first x in s, 0 when there is none
First(s, x) ==
    IF x \in Range(s) THEN CHOOSE i \in DOMAIN s : s[i] = x /\ \A j \in 1..(i - 1) : s[j] # x
    ELSE 0

\* the handler is past its dependency-map statement
PastDependencyMap ==
    \/ cmd = "http" /\ pc \notin {"wd", "depmap"}
    \/ cmd = "grpc" /\ pc \notin {"wd", "runner_map"}

\* the dependency-map statement ran and returned / ran and raised
DepResolved == PastDependencyMap /\ "dependency_map" \in Range(log)
DepFailed == PastDependencyMap /\ "dependency_map" \notin Range(log)

\* the number of "=" in a token
NumEq(t) == Count(t, "=")

\* a token read as name=address at its first "="
NameOf(t) == SubSeq(t, 1, FindSep(t, "=", 1) - 1)
AddressOf(t) == SubSeq(t, FindSep(t, "=", 1) + 1, Len(t))

\* the map of a token sequence in which the last token of a name decides its address
LastWins(tokens) ==
    [n \in {NameOf(tokens[i]) : i \in DOMAIN tokens} |->
        AddressOf(tokens[CHOOSE i \in DOMAIN tokens :
            /\ NameOf(tokens[i]) = n
            /\ \A j \in DOMAIN tokens : NameOf(tokens[j]) = n => j <= i])]

\* a runner_map text is given / parses / parses to an object
GivenText(o) == o # None /\ o[1] # ""
IsJson(text) == JsonLoads(text).ok
IsJsonObject(text) == JsonLoads(text).ok /\ JsonLoads(text).value.kind = "dict"

\* an input that makes a resolution step of start_http_server fail
BadHttpInput ==
    \/ args.bind # None /\ args.bind[1].scheme # "tcp"
    \/ \E i \in DOMAIN args.depends : NumEq(args.depends[i]) = 0
    \/ args.depends = <<>> /\ GivenText(args.runner_map) /\ ~IsJson(args.runner_map[1])
    \/ ~load_result.ok

LaunchStrategies == {"start_http_server", "start_runner_server", "serve_http"}

(***************************************************************************)
(* C1: in a run of start_http_server at most one launch strategy is called *)
(* and at most once; it is called only after the working directory, the    *)
(* dependency map, the bind address and the service load have each         *)
(* completed, in that order before the call; a completed run has called    *)
(* one; and when a step fails (non-tcp bind scheme, dependency token       *)
(* without "=", malformed JSON, load failure) none is called.              *)
(***************************************************************************)
C1_OneLaunchAfterResolution ==
    cmd = "http" =>
        /\ Len(launched) <= 1
        /\ Count(log, "launch") = Len(launched)
        /\ launched # <<>> =>
            /\ launched[1].strategy \in LaunchStrategies
            /\ 0 < First(log, "working_dir")
            /\ First(log, "working_dir") < First(log, "dependency_map")
            /\ First(log, "dependency_map") < First(log, "bind")
            /\ First(log, "bind") < First(log, "load")
            /\ First(log, "load") < First(log, "launch")
        /\ pc = "done" => Len(launched) = 1
        /\ pc = "failed" => launched = <<>>
        /\ BadHttpInput => launched = <<>> /\ pc # "done"

C1_Witness ==
    /\ cmd = "http"
    /\ pc = "failed"
    /\ ~load_result.ok
    /\ log = <<"working_dir", "dependency_map", "bind">>
    /\ args.depends # <<>>
    /\ launched = <<>>

(***************************************************************************)
(* C2: for a legacy-style service named N, start_http_server calls the     *)
(* full legacy HTTP server when service_name is empty or equals N, and     *)
(* otherwise the legacy runner server with runner_name = service_name;     *)
(* reload is not among the arguments of either; a requested reload is      *)
(* answered by one warning and the run never fails once the service is     *)
(* loaded.                                                                 *)
(***************************************************************************)
C2_LegacySelection ==
    (cmd = "http" /\ svc.ok /\ svc.legacy) =>
        /\ pc # "failed"
        /\ pc \in {"legacy_http", "runner_bind", "runner_launch", "done"} =>
               Count(log, "warning") = (IF args.reload THEN 1 ELSE 0)
        /\ pc = "done" => Len(launched) = 1
        /\ \A i \in DOMAIN launched :
            /\ "reload" \notin DOMAIN launched[i].kw
            /\ IF args.service_name = "" \/ args.service_name = svc.name
               THEN launched[i].strategy = "start_http_server"
               ELSE /\ launched[i].strategy = "start_runner_server"
                    /\ launched[i].kw.runner_name = args.service_name

C2_Witness ==
    /\ cmd = "http"
    /\ svc.ok /\ svc.legacy
    /\ svc.name = "other"
    /\ args.reload
    /\ args.service_name = "svc"
    /\ pc = "done"
    /\ launched[1].strategy = "start_runner_server"

(***************************************************************************)
(* C3: for a current-style service and any service_name, start_http_server *)
(* calls the current-runtime server, after exactly one inject_config that  *)
(* precedes the call, and passes the resolved dependency map, service_name *)
(* and reload unchanged; for a legacy-style service inject_config is never *)
(* called.                                                                 *)
(***************************************************************************)
C3_CurrentSelection ==
    cmd = "http" =>
        /\ (svc.ok /\ ~svc.legacy) =>
            /\ Count(log, "inject_config") <= 1
            /\ pc = "done" => Len(launched) = 1
            /\ \A i \in DOMAIN launched :
                /\ launched[i].strategy = "serve_http"
                /\ Count(log, "inject_config") = 1
                /\ First(log, "inject_config") < First(log, "launch")
                /\ launched[i].kw.dependency_map =
                       DependencyMapResolver(args.depends, args.runner_map).value
                /\ launched[i].kw.service_name = args.service_name
                /\ launched[i].kw.reload = args.reload
        /\ ~(svc.ok /\ ~svc.legacy) => Count(log, "inject_config") = 0

C3_Witness ==
    /\ cmd = "http"
    /\ svc.ok /\ ~svc.legacy
    /\ pc = "done"
    /\ args.service_name = "other"
    /\ args.reload
    /\ launched[1].kw.dependency_map.items # <<>>

(***************************************************************************)
(* C4: once the bind block of start_http_server or start_runner_server has *)
(* run, without a bind string host and port are the discrete ones; with a  *)
(* bind string the host is the one the string carries, the discrete host   *)
(* when it carries none, and the port is the one the string carries, the   *)
(* discrete port when it carries none.                                     *)
(***************************************************************************)
C4_ResolvedAddress ==
    (cmd \in {"http", "runner"} /\ "bind" \in Range(log)) =>
        IF args.bind = None
        THEN host = args.host /\ port = args.port
        ELSE /\ host = (IF args.bind[1].host # ""
                        THEN Some(Lower(args.bind[1].host))
                        ELSE args.host)
             /\ port = (IF args.bind[1].port # None
                        THEN args.bind[1].port
                        ELSE args.port)

(***************************************************************************)
(* C5: in start_http_server, with depends non-empty the dependency map is  *)
(* the map of the tokens in which a later token of a name replaces an      *)
(* earlier one, and the runner_map text has no part in it: the step fails  *)
(* only when a token does not hold exactly one "="; with depends empty and *)
(* a runner_map text given the map is what the text parses to; with        *)
(* neither the map is empty.                                               *)
(***************************************************************************)
C5_DependencyMap ==
    (cmd = "http" /\ PastDependencyMap) =>
        /\ (args.depends # <<>> /\ DepResolved) =>
               runner_map_dict = PyDict(LastWins(args.depends))
        /\ (args.depends # <<>> /\ DepFailed) =>
               \E i \in DOMAIN args.depends : NumEq(args.depends[i]) # 1
        /\ (args.depends = <<>> /\ GivenText(args.runner_map) /\ IsJson(args.runner_map[1])) =>
               /\ DepResolved
               /\ runner_map_dict = JsonLoads(args.runner_map[1]).value
        /\ (args.depends = <<>> /\ ~GivenText(args.runner_map)) =>
               /\ DepResolved
               /\ runner_map_dict = EmptyDict

C5_Witness ==
    /\ cmd = "http"
    /\ DepResolved
    /\ Len(args.depends) = 2
    /\ NameOf(args.depends[1]) = NameOf(args.depends[2])
    /\ args.depends[1] # args.depends[2]
    /\ args.runner_map = Some("{bad")
    /\ runner_map_dict.items[<<"a">>] = AddressOf(args.depends[2])

(***************************************************************************)
(* C6: in start_http_server with depends empty and a runner_map text       *)
(* given, a text that is not JSON or is JSON other than an object aborts   *)
(* the run: no launch strategy is called and the run does not complete.    *)
(***************************************************************************)
C6_NonObjectJsonAborts ==
    (cmd = "http" /\ args.depends = <<>> /\ GivenText(args.runner_map)
        /\ ~IsJsonObject(args.runner_map[1])) =>
        launched = <<>> /\ pc # "done"

(***************************************************************************)
(* C7: every token of depends (start_http_server) and of remote_runner     *)
(* (start_grpc_server) is read as name=address at its first "=", the       *)
(* address being all the text after it; a token without "=" makes the step *)
(* fail and no launch strategy is called.                                  *)
(***************************************************************************)
C7_TokenSplitAtFirstEq ==
    LET tokens == IF cmd = "http" THEN args.depends ELSE args.remote_runner
    IN  (cmd \in {"http", "grpc"} /\ tokens # <<>> /\ PastDependencyMap) =>
            IF \E i \in DOMAIN tokens : NumEq(tokens[i]) = 0
            THEN DepFailed /\ launched = <<>>
            ELSE DepResolved /\ runner_map_dict = PyDict(LastWins(tokens))

(***************************************************************************)
(* C8: in start_http_server a configuration field left unset on the        *)
(* command line, and for host and port not carried by the bind string, is  *)
(* still unset in the arguments of every launch strategy that takes it.    *)
(***************************************************************************)
C8_UnsetStaysUnset ==
    cmd = "http" =>
        \A i \in DOMAIN launched :
            \A f \in (OptFields \cup {"host", "port"}) \cap DOMAIN launched[i].kw :
                (/\ args[f] = None
                 /\ f = "host" => (args.bind = None \/ args.bind[1].host = "")
                 /\ f = "port" => (args.bind = None \/ args.bind[1].port = None))
                => launched[i].kw[f] = None

(***************************************************************************)
(* C9: after any sequence of working-directory resolutions the first entry *)
(* of sys.path is the directory resolved last, and no resolved directory   *)
(* occurs in sys.path more than once more than it did before the first     *)
(* resolution.                                                             *)
(***************************************************************************)
C9_PathHeadAndNoDuplicate ==
    resolved # <<>> =>
        /\ sys_path[1] = resolved[Len(resolved)]
        /\ \A d \in Range(resolved) : Count(sys_path, d) <= Count(path0, d) + 1

(***************************************************************************)
(* C10: the legacy runner server, called by start_http_server or by        *)
(* start_runner_server, is given exactly runner_name, working_dir,         *)
(* timeout, port, host and backlog (beside the bento): the name asked for, *)
(* the resolved working directory, timeout and backlog as given, and the   *)
(* host and port that one resolution of the bind string against the        *)
(* discrete host and port yields.                                          *)
(***************************************************************************)
C10_RunnerArguments ==
    /\ (cmd = "runner" /\ pc = "done") =>
           Len(launched) = 1 /\ launched[1].strategy = "start_runner_server"
    /\ \A i \in DOMAIN launched :
        launched[i].strategy = "start_runner_server" =>
            LET kw == launched[i].kw
                once == ApplyBind(args.bind, args.host, args.port)
            IN  /\ DOMAIN kw = {"runner_name", "working_dir", "timeout", "port",
                                "host", "backlog"}
                /\ launched[i].bento = args.bento
                /\ kw.runner_name =
                       (IF cmd = "http" THEN args.service_name ELSE args.runner_name)
                /\ kw.working_dir = ResolveWorkingDir(args.bento, args.working_dir)
                /\ kw.timeout = args.timeout
                /\ kw.backlog = args.backlog
                /\ once.ok
                /\ kw.host = once.host
                /\ kw.port = once.port

C10_Witness ==
    /\ cmd = "http"
    /\ pc = "done"
    /\ launched[1].strategy = "start_runner_server"
    /\ args.bind # None
    /\ args.bind[1].host = "H1"
    /\ args.bind[1].port = None
    /\ args.port = Some(3000)
    /\ launched[1].kw.host = Some("h1")
    /\ launched[1].kw.port = Some(3000)

====
